---- MODULE Spec2Model ----
(***************************************************************************)
(* A model of the CIFAR-10 ResNet repository: the layer topology and shape *)
(* bookkeeping of resnet.py (ResidualBlock, ResNet) and the control flow   *)
(* of train.py (make, evaluate, train, model_pipeline).                    *)
(*                                                                         *)
(* Tensors are modelled by their shapes (sequences of dimensions); a       *)
(* raised shape error is the value Err.  Parameter values are modelled by  *)
(* a version number that every optimizer step advances.                    *)
(***************************************************************************)
EXTENDS Integers, Sequences, FiniteSets, TLC

\* ------------------------------------------------------------------------
\* Bounds of the model
\* ------------------------------------------------------------------------

\* largest depth factor n explored
MaxN == 3
\* largest batch dimension of a tensor fed to the network on its own
MaxB == 4
\* largest height / width fed to a residual block on its own
MaxHW == 6
\* largest number of batches a data loader yields
MaxBatches == 2
\* epoch counts explored besides the configured one: 0..MaxSmallEpochs
MaxSmallEpochs == 3

\* ------------------------------------------------------------------------
\* resnet.py : shapes and layers
\* ------------------------------------------------------------------------

\* the outcome of an operation that raised a shape error
Err == <<>>

\* nn.Conv2d(in_channels, out_channels, kernel_size, stride, padding)
Conv2d(cin, cout, k, s, p) == [cin |-> cin, cout |-> cout, k |-> k, s |-> s, p |-> p]

\* the output shape of a convolution layer on an input of shape x = <<B,C,H,W>>
Conv2dForward(layer, x) ==
    IF \/ Len(x) # 4
       \/ x[2] # layer.cin
       \/ x[3] + 2 * layer.p < layer.k
       \/ x[4] + 2 * layer.p < layer.k
    THEN Err
    ELSE << x[1], layer.cout,
            ((x[3] + 2 * layer.p - layer.k) \div layer.s) + 1,
            ((x[4] + 2 * layer.p - layer.k) \div layer.s) + 1 >>

\* ResidualBlock.__init__ with conv1 of stride 1 also when subsampling
ResidualBlockStride1(num_filters, subsample) ==
    [ subsample |-> subsample,
      conv1 |-> IF subsample
                THEN Conv2d(num_filters \div 2, num_filters, 3, 1, 1)
                ELSE Conv2d(num_filters, num_filters, 3, 1, 1),
      conv2 |-> Conv2d(num_filters, num_filters, 3, 1, 1),
      projection_shortcut |-> Conv2d(num_filters \div 2, num_filters, 1, 1, 0) ]

\* ResidualBlock.__init__ with the padding of the subsampling conv1 left out
ResidualBlockNoPad(num_filters, subsample) ==
    [ subsample |-> subsample,
      conv1 |-> IF subsample
                THEN Conv2d(num_filters \div 2, num_filters, 3, 2, 0)
                ELSE Conv2d(num_filters, num_filters, 3, 1, 1),
      conv2 |-> Conv2d(num_filters, num_filters, 3, 1, 1),
      projection_shortcut |-> Conv2d(num_filters \div 2, num_filters, 1, 2, 0) ]

\* ResidualBlock.__init__
ResidualBlock(num_filters, subsample) ==
    [ subsample |-> subsample,
      conv1 |-> IF subsample
                THEN Conv2d(num_filters \div 2, num_filters, 3, 2, 1)
                ELSE Conv2d(num_filters, num_filters, 3, 1, 1),
      conv2 |-> Conv2d(num_filters, num_filters, 3, 1, 1),
      projection_shortcut |-> Conv2d(num_filters \div 2, num_filters, 1, 2, 0) ]

\* ResidualBlock.forward, lines 30-32: conv1 -> relu -> conv2 (relu keeps the shape)
ResidualOut(blk, x) ==
    LET o1 == Conv2dForward(blk.conv1, x)
    IN  IF o1 = Err THEN Err ELSE Conv2dForward(blk.conv2, o1)

\* ResidualBlock.forward, lines 35-36: the tensor added back
Shortcut(blk, x) ==
    IF blk.subsample THEN Conv2dForward(blk.projection_shortcut, x) ELSE x

\* whether x can be added in place into out (out += x broadcasts x to out)
Broadcastable(x, out) ==
    /\ Len(x) = Len(out)
    /\ \A i \in 1..Len(out) : x[i] = out[i] \/ x[i] = 1

\* ResidualBlock.forward: the output shape, or Err
BlockForward(blk, x) ==
    LET out == ResidualOut(blk, x)
        sc  == Shortcut(blk, x)
    IN  IF out = Err \/ sc = Err THEN Err
        ELSE IF ~Broadcastable(sc, out) THEN Err
        ELSE out

\* a run of k identical non-subsampling blocks: [ResidualBlock(f) for _ in range(k)]
Blocks(f, k) == [i \in 1..k |-> ResidualBlock(f, FALSE)]

\* ResNet.__init__ with range(n) instead of range(n - 1) in stack2
ResNetExtraBlock(n) ==
    [ conv1  |-> Conv2d(3, 16, 3, 1, 1),
      stack1 |-> Blocks(16, n),
      stack2 |-> <<ResidualBlock(32, TRUE)>> \o Blocks(32, n),
      stack3 |-> <<ResidualBlock(64, TRUE)>> \o Blocks(64, n - 1),
      global_avg_pool |-> 8,
      fully_connected |-> [in |-> 64, out |-> 10] ]

\* ResNet.__init__ : no check of n; range(k) is empty for k <= 0
ResNet(n) ==
    [ conv1  |-> Conv2d(3, 16, 3, 1, 1),
      stack1 |-> Blocks(16, n),
      stack2 |-> <<ResidualBlock(32, TRUE)>> \o Blocks(32, n - 1),
      stack3 |-> <<ResidualBlock(64, TRUE)>> \o Blocks(64, n - 1),
      global_avg_pool |-> 8,
      fully_connected |-> [in |-> 64, out |-> 10] ]

\* nn.AvgPool2d(k): kernel k, stride k, no padding
AvgPoolForward(k, x) ==
    IF Len(x) # 4 \/ x[3] < k \/ x[4] < k THEN Err
    ELSE << x[1], x[2], ((x[3] - k) \div k) + 1, ((x[4] - k) \div k) + 1 >>

\* out.view(-1, 64): the element count must divide by 64
ViewForward(x) ==
    LET numel == x[1] * x[2] * x[3] * x[4]
    IN  IF numel % 64 # 0 THEN Err ELSE << numel \div 64, 64 >>

\* nn.Linear(in, out) on a 2-d input
LinearForward(layer, x) ==
    IF Len(x) # 2 \/ x[2] # layer.in THEN Err ELSE << x[1], layer.out >>

\* nn.Sequential.forward over a list of residual blocks
RECURSIVE SequentialForward(_, _)
SequentialForward(blocks, x) ==
    IF x = Err THEN Err
    ELSE IF Len(blocks) = 0 THEN x
    ELSE SequentialForward(Tail(blocks), BlockForward(Head(blocks), x))

\* ResNet.forward as one function of the input shape
ResNetForward(net, x) ==
    LET a == Conv2dForward(net.conv1, x)
        b == SequentialForward(net.stack1, a)
        c == SequentialForward(net.stack2, b)
        d == SequentialForward(net.stack3, c)
        e == IF d = Err THEN Err ELSE AvgPoolForward(net.global_avg_pool, d)
        f == IF e = Err THEN Err ELSE ViewForward(e)
    IN  IF f = Err THEN Err ELSE LinearForward(net.fully_connected, f)

\* ------------------------------------------------------------------------
\* State
\* ------------------------------------------------------------------------

VARIABLES
    \* --- a network built and run on its own (resnet.py) ---
    netN,        \* the depth factor ResNet was constructed with
    net,         \* the constructed ResNet
    stage,       \* position inside ResNet.forward
    bi,          \* index of the next block inside the current stack
    inShape,     \* shape of the input given to forward
    x,           \* shape of the activation computed so far
    lastAdd,     \* operand shapes of the latest residual addition out += x
    tBlock,      \* a residual block run on its own
    tIn,         \* its input shape
    tOut,        \* its output shape
    \* --- the training pipeline (train.py) ---
    pc,          \* position inside model_pipeline / train / evaluate
    config,      \* the hyperparameters: n and epochs
    trainLoader, \* number of batches of the train loader
    testLoader,  \* number of batches of the test loader
    trainTransform, \* preprocessing given to the train split
    testTransform,  \* preprocessing given to the test split
    model,       \* the ResNet built by make
    params,      \* version of the model's learnable parameters
    grads,       \* state of the parameters' .grad
    training,    \* model.training
    inference,   \* inside torch.inference_mode()
    watched,     \* wandb.watch registered
    epoch,       \* loop variable of train
    bidx,        \* index of the train batch being processed
    optSteps,    \* optimizer.step() calls so far
    lr,          \* the optimizer's learning rate, in thousandths
    lastEpoch,   \* scheduler.last_epoch
    stepLRs,     \* learning rate used by the optimizer steps of the current epoch
    batchLog,    \* the steps taken on the current batch, in order
    trained,     \* the train batches processed in the current epoch, in order
    evalSplit,   \* the split evaluate is running on
    evalIdx,     \* index of the next batch of evaluate
    metrics,     \* results of evaluate for the two splits
    records,     \* what wandb.log received, in order
    modelPth,    \* content of the file model.pth (-1: no file)
    runFiles,    \* files synced to the run by wandb.save
    artifact,    \* the wandb.Artifact object
    registered,  \* the artifacts run.log_artifact received, in order
    snapshot     \* parameters, gradients and step count when evaluate was entered

netVars == << netN, net, stage, bi, inShape, x, lastAdd, tBlock, tIn, tOut >>

pipeVars == << pc, config, trainLoader, testLoader, trainTransform, testTransform,
               model, params, grads, training, inference, watched, epoch, bidx,
               optSteps, lr, lastEpoch, stepLRs, batchLog, trained, evalSplit,
               evalIdx, metrics, records, modelPth, runFiles, artifact, registered,
               snapshot >>

vars == << netVars, pipeVars >>

\* ------------------------------------------------------------------------
\* Inputs
\* ------------------------------------------------------------------------

\* depth factors given to ResNet, the non-positive ones included
DepthFactors == (0 - 1)..MaxN

\* height = width of the images given to ResNet.forward (CIFAR-10 images are 32)
ImageSizes == {16, 32, 64}

\* output widths of residual blocks run on their own
BlockWidths == {16, 32, 64}

NoAdd == [out |-> Err, x |-> Err]

\* ------------------------------------------------------------------------
\* resnet.py as a state machine: construct a network, run forward
\* ------------------------------------------------------------------------

NetIdle ==
    /\ netN = 0 /\ net = "none" /\ bi = 0
    /\ inShape = Err /\ x = Err /\ lastAdd = NoAdd
    /\ tBlock = "none" /\ tIn = Err /\ tOut = Err

PipeIdle ==
    /\ config = [n |-> 0, epochs |-> 0]
    /\ trainLoader = 0 /\ testLoader = 0
    /\ trainTransform = <<>> /\ testTransform = <<>>
    /\ model = "none" /\ params = 0 /\ grads = "none"
    /\ training = TRUE /\ inference = FALSE /\ watched = FALSE
    /\ epoch = 0 /\ bidx = 0 /\ optSteps = 0 /\ lr = 0 /\ lastEpoch = 0
    /\ stepLRs = {} /\ batchLog = <<>> /\ trained = <<>>
    /\ evalSplit = "none" /\ evalIdx = 0
    /\ metrics = [train |-> -1, test |-> -1]
    /\ records = <<>>
    /\ modelPth = -1 /\ runFiles = {} /\ artifact = "none" /\ registered = <<>>
    /\ snapshot = <<>>

InitNet == stage = "idle" /\ NetIdle /\ pc = "off" /\ PipeIdle

\* ResNet(n)
Construct ==
    /\ stage = "idle"
    /\ \E n \in DepthFactors :
          /\ netN' = n
          /\ net' = ResNet(n)
    /\ stage' = "built"
    /\ UNCHANGED << bi, inShape, x, lastAdd, tBlock, tIn, tOut, pipeVars >>

\* ResNet.forward, lines 74-75: the stem convolution and relu
FwdConv1 ==
    /\ stage = "built"
    /\ \E B \in 1..MaxB, s \in ImageSizes :
          LET in == << B, 3, s, s >>
              a  == Conv2dForward(net.conv1, in)
          IN  /\ inShape' = in
              /\ x' = a
              /\ stage' = IF a = Err THEN "error" ELSE "stack1"
    /\ bi' = 1
    /\ UNCHANGED << netN, net, lastAdd, tBlock, tIn, tOut, pipeVars >>

Stacks == {"stack1", "stack2", "stack3"}

NextStage(s) ==
    CASE s = "stack1" -> "stack2"
      [] s = "stack2" -> "stack3"
      [] s = "stack3" -> "pool"

\* one block of the current stack: ResidualBlock.forward
FwdBlock ==
    /\ stage \in Stacks
    /\ bi <= Len(net[stage])
    /\ LET blk == net[stage][bi]
           out == ResidualOut(blk, x)
           sc  == Shortcut(blk, x)
       IN  IF BlockForward(blk, x) = Err
           THEN /\ stage' = "error"
                /\ x' = Err
                /\ UNCHANGED << bi, lastAdd >>
           ELSE /\ lastAdd' = [out |-> out, x |-> sc]
                /\ x' = BlockForward(blk, x)
                /\ bi' = bi + 1
                /\ stage' = stage
    /\ UNCHANGED << netN, net, inShape, tBlock, tIn, tOut, pipeVars >>

\* the end of a stack: ResNet.forward moves to its next line
FwdStackEnd ==
    /\ stage \in Stacks
    /\ bi > Len(net[stage])
    /\ stage' = NextStage(stage)
    /\ bi' = 1
    /\ UNCHANGED << netN, net, inShape, x, lastAdd, tBlock, tIn, tOut, pipeVars >>

\* ResNet.forward, line 79
FwdPool ==
    /\ stage = "pool"
    /\ x' = AvgPoolForward(net.global_avg_pool, x)
    /\ stage' = IF x' = Err THEN "error" ELSE "view"
    /\ UNCHANGED << netN, net, bi, inShape, lastAdd, tBlock, tIn, tOut, pipeVars >>

\* ResNet.forward, line 80
FwdView ==
    /\ stage = "view"
    /\ x' = ViewForward(x)
    /\ stage' = IF x' = Err THEN "error" ELSE "fc"
    /\ UNCHANGED << netN, net, bi, inShape, lastAdd, tBlock, tIn, tOut, pipeVars >>

\* ResNet.forward, lines 81-82
FwdFC ==
    /\ stage = "fc"
    /\ x' = LinearForward(net.fully_connected, x)
    /\ stage' = IF x' = Err THEN "error" ELSE "done"
    /\ UNCHANGED << netN, net, bi, inShape, lastAdd, tBlock, tIn, tOut, pipeVars >>

\* a residual block built and run on its own on an input of any shape
BlockApply ==
    /\ stage = "idle"
    /\ \E w \in BlockWidths, sub \in BOOLEAN, B \in 1..MaxB,
          H \in 1..MaxHW, W \in 1..MaxHW :
          \E C \in {w \div 2, w} :
             /\ tBlock' = ResidualBlock(w, sub)
             /\ tIn' = << B, C, H, W >>
             /\ tOut' = BlockForward(tBlock', tIn')
    /\ stage' = "block"
    /\ UNCHANGED << netN, net, bi, inShape, x, lastAdd, pipeVars >>

NextNet ==
    \/ Construct
    \/ FwdConv1
    \/ FwdBlock
    \/ FwdStackEnd
    \/ FwdPool
    \/ FwdView
    \/ FwdFC
    \/ BlockApply

SpecNet == InitNet /\ [][NextNet]_vars

\* ------------------------------------------------------------------------
\* train.py : hyperparameters
\* ------------------------------------------------------------------------

\* hyperparameters["epochs"]
Epochs == 164
\* hyperparameters["batch_size"]
BatchSize == 128
\* hyperparameters["learning_rate"] = 0.1, in thousandths
BaseLR == 100
\* MultiStepLR(..., gamma=0.1): the rate is divided by 10
GammaInv == 10
\* MultiStepLR(..., milestones=[82, 123], ...)
Milestone1 == 82
Milestone2 == 123
Milestones == {Milestone1, Milestone2}

\* epoch counts given to a run: a few small ones and the configured one
EpochChoices == (0..MaxSmallEpochs) \cup {Epochs}

\* make, lines 20-28: the transform composed for the train split
TrainTransform == << "ToTensor", "Normalize", "RandomCrop" >>

\* make, line 30: the transform passed for the test split
TestTransform == << "ToTensor" >>

\* a CIFAR-10 batch as the loaders yield it
BatchShape == << BatchSize, 3, 32, 32 >>

\* len(loader) of the loader evaluate or train iterates
LoaderLen(split) == IF split = "train" THEN trainLoader ELSE testLoader

\* MultiStepLR.step with the milestone compared before last_epoch is advanced
DecayedLRLate(rate, last) ==
    IF last - 1 \in Milestones THEN rate \div GammaInv ELSE rate

\* MultiStepLR.step: the rate once last_epoch has become `last`
DecayedLR(rate, last) ==
    IF last \in Milestones THEN rate \div GammaInv ELSE rate

\* ------------------------------------------------------------------------
\* train.py as a state machine: model_pipeline
\* ------------------------------------------------------------------------

InitPipe ==
    /\ stage = "off" /\ NetIdle
    /\ pc = "init"
    /\ config \in [n : DepthFactors, epochs : EpochChoices]
    /\ trainLoader = 0 /\ testLoader = 0
    /\ trainTransform = <<>> /\ testTransform = <<>>
    /\ model = "none" /\ params = 0 /\ grads = "none"
    /\ training = TRUE /\ inference = FALSE /\ watched = FALSE
    /\ epoch = 0 /\ bidx = 0 /\ optSteps = 0 /\ lr = 0 /\ lastEpoch = 0
    /\ stepLRs = {} /\ batchLog = <<>> /\ trained = <<>>
    /\ evalSplit = "none" /\ evalIdx = 0
    /\ metrics = [train |-> -1, test |-> -1]
    /\ records = <<>>
    /\ modelPth = -1 /\ runFiles = {} /\ artifact = "none" /\ registered = <<>>
    /\ snapshot = <<>>

\* make(config): transforms, loaders, model, optimizer, scheduler
Make ==
    /\ pc = "init"
    /\ trainTransform' = TrainTransform
    /\ testTransform' = TestTransform
    /\ trainLoader' \in 1..MaxBatches
    /\ testLoader' \in 1..MaxBatches
    /\ model' = ResNet(config.n)
    /\ lr' = BaseLR
    /\ lastEpoch' = 0
    /\ pc' = "watch"
    /\ UNCHANGED << config, params, grads, training, inference, watched, epoch, bidx,
                    optSteps, stepLRs, batchLog, trained, evalSplit, evalIdx, metrics,
                    records, modelPth, runFiles, artifact, registered, snapshot, netVars >>

\* train, line 77: wandb.watch, then the epoch loop is entered
TrainWatch ==
    /\ pc = "watch"
    /\ watched' = TRUE
    /\ epoch' = 0
    /\ pc' = "epoch"
    /\ UNCHANGED << config, trainLoader, testLoader, trainTransform, testTransform,
                    model, params, grads, training, inference, bidx, optSteps, lr,
                    lastEpoch, stepLRs, batchLog, trained, evalSplit, evalIdx, metrics,
                    records, modelPth, runFiles, artifact, registered, snapshot, netVars >>

\* train, lines 79-83: the next epoch begins: model.train(), first batch fetched
EpochStart ==
    /\ pc = "epoch"
    /\ epoch < config.epochs
    /\ training' = TRUE
    /\ bidx' = 1
    /\ trained' = <<>>
    /\ stepLRs' = {}
    /\ batchLog' = <<>>
    /\ pc' = "forward"
    /\ UNCHANGED << config, trainLoader, testLoader, trainTransform, testTransform,
                    model, params, grads, inference, watched, epoch, optSteps, lr,
                    lastEpoch, evalSplit, evalIdx, metrics, records, modelPth,
                    runFiles, artifact, registered, snapshot, netVars >>

\* train, line 79: range(config.epochs) is exhausted and train returns
TrainReturn ==
    /\ pc = "epoch"
    /\ epoch >= config.epochs
    /\ pc' = "artifact"
    /\ UNCHANGED << config, trainLoader, testLoader, trainTransform, testTransform,
                    model, params, grads, training, inference, watched, epoch, bidx,
                    optSteps, lr, lastEpoch, stepLRs, batchLog, trained, evalSplit,
                    evalIdx, metrics, records, modelPth, runFiles, artifact,
                    registered, snapshot, netVars >>

\* train, line 86: outputs = model(images); a shape error is fatal
TrainForward ==
    /\ pc = "forward"
    /\ batchLog' = << "forward" >>
    /\ pc' = IF ResNetForward(model, BatchShape) = Err THEN "failed" ELSE "loss"
    /\ UNCHANGED << config, trainLoader, testLoader, trainTransform, testTransform,
                    model, params, grads, training, inference, watched, epoch, bidx,
                    optSteps, lr, lastEpoch, stepLRs, trained, evalSplit, evalIdx,
                    metrics, records, modelPth, runFiles, artifact, registered,
                    snapshot, netVars >>

\* train, line 87: train_loss = loss_func(outputs, labels)
TrainLoss ==
    /\ pc = "loss"
    /\ batchLog' = Append(batchLog, "loss")
    /\ pc' = "zero_grad"
    /\ UNCHANGED << config, trainLoader, testLoader, trainTransform, testTransform,
                    model, params, grads, training, inference, watched, epoch, bidx,
                    optSteps, lr, lastEpoch, stepLRs, trained, evalSplit, evalIdx,
                    metrics, records, modelPth, runFiles, artifact, registered,
                    snapshot, netVars >>

\* train, line 88: optimizer.zero_grad()
ZeroGrad ==
    /\ pc = "zero_grad"
    /\ grads' = "cleared"
    /\ batchLog' = Append(batchLog, "zero_grad")
    /\ pc' = "backward"
    /\ UNCHANGED << config, trainLoader, testLoader, trainTransform, testTransform,
                    model, params, training, inference, watched, epoch, bidx,
                    optSteps, lr, lastEpoch, stepLRs, trained, evalSplit, evalIdx,
                    metrics, records, modelPth, runFiles, artifact, registered,
                    snapshot, netVars >>

\* train, line 89: train_loss.backward()
Backward ==
    /\ pc = "backward"
    /\ grads' = "computed"
    /\ batchLog' = Append(batchLog, "backward")
    /\ pc' = "step"
    /\ UNCHANGED << config, trainLoader, testLoader, trainTransform, testTransform,
                    model, params, training, inference, watched, epoch, bidx,
                    optSteps, lr, lastEpoch, stepLRs, trained, evalSplit, evalIdx,
                    metrics, records, modelPth, runFiles, artifact, registered,
                    snapshot, netVars >>

\* optimizer.step() that leaves the loop one batch early
OptimizerStepDropsLast ==
    /\ pc = "step"
    /\ params' = params + 1
    /\ optSteps' = optSteps + 1
    /\ stepLRs' = stepLRs \cup {lr}
    /\ batchLog' = Append(batchLog, "step")
    /\ trained' = Append(trained, bidx)
    /\ IF bidx + 1 < trainLoader
       THEN /\ bidx' = bidx + 1
            /\ pc' = "forward"
            /\ UNCHANGED evalSplit
       ELSE /\ pc' = "eval_enter"
            /\ evalSplit' = "train"
            /\ UNCHANGED bidx
    /\ UNCHANGED << config, trainLoader, testLoader, trainTransform, testTransform,
                    model, grads, training, inference, watched, epoch, lr,
                    lastEpoch, evalIdx, metrics, records, modelPth, runFiles,
                    artifact, registered, snapshot, netVars >>

\* train, lines 90, 83, 93: optimizer.step(), then the next batch of the loader or,
\* when it is exhausted, evaluate on the train split
OptimizerStep ==
    /\ pc = "step"
    /\ params' = params + 1
    /\ optSteps' = optSteps + 1
    /\ stepLRs' = stepLRs \cup {lr}
    /\ batchLog' = Append(batchLog, "step")
    /\ trained' = Append(trained, bidx)
    /\ IF bidx < trainLoader
       THEN /\ bidx' = bidx + 1
            /\ pc' = "forward"
            /\ UNCHANGED evalSplit
       ELSE /\ pc' = "eval_enter"
            /\ evalSplit' = "train"
            /\ UNCHANGED bidx
    /\ UNCHANGED << config, trainLoader, testLoader, trainTransform, testTransform,
                    model, grads, training, inference, watched, epoch, lr,
                    lastEpoch, evalIdx, metrics, records, modelPth, runFiles,
                    artifact, registered, snapshot, netVars >>

\* evaluate that runs a training step on every batch
EvalBatchTrains ==
    /\ pc = "eval_loop"
    /\ evalIdx <= LoaderLen(evalSplit)
    /\ IF ResNetForward(model, BatchShape) = Err
       THEN pc' = "failed" /\ UNCHANGED evalIdx
       ELSE pc' = pc /\ evalIdx' = evalIdx + 1
    /\ grads' = "computed"
    /\ params' = params + 1
    /\ optSteps' = optSteps + 1
    /\ UNCHANGED << config, trainLoader, testLoader, trainTransform, testTransform,
                    model, training, inference, watched, epoch, bidx,
                    lr, lastEpoch, stepLRs, batchLog, trained, evalSplit,
                    metrics, records, modelPth, runFiles, artifact, registered,
                    snapshot, netVars >>

\* evaluate, lines 55-58: model.eval(), inference mode entered, counters zeroed
EvalEnter ==
    /\ pc = "eval_enter"
    /\ training' = FALSE
    /\ inference' = TRUE
    /\ evalIdx' = 1
    /\ snapshot' = << params, grads, optSteps >>
    /\ pc' = "eval_loop"
    /\ UNCHANGED << config, trainLoader, testLoader, trainTransform, testTransform,
                    model, params, grads, watched, epoch, bidx, optSteps, lr,
                    lastEpoch, stepLRs, batchLog, trained, evalSplit, metrics,
                    records, modelPth, runFiles, artifact, registered, netVars >>

\* evaluate, lines 59-67: one batch: forward pass, loss and correct count accumulated
EvalBatch ==
    /\ pc = "eval_loop"
    /\ evalIdx <= LoaderLen(evalSplit)
    /\ IF ResNetForward(model, BatchShape) = Err
       THEN pc' = "failed" /\ UNCHANGED evalIdx
       ELSE pc' = pc /\ evalIdx' = evalIdx + 1
    /\ UNCHANGED << config, trainLoader, testLoader, trainTransform, testTransform,
                    model, params, grads, training, inference, watched, epoch, bidx,
                    optSteps, lr, lastEpoch, stepLRs, batchLog, trained, evalSplit,
                    metrics, records, modelPth, runFiles, artifact, registered,
                    snapshot, netVars >>

\* evaluate, lines 69-72, and train, lines 93-94: the loader is exhausted, inference
\* mode is left and the result returned; the test split follows the train split
EvalReturn ==
    /\ pc = "eval_loop"
    /\ evalIdx > LoaderLen(evalSplit)
    /\ inference' = FALSE
    /\ metrics' = [metrics EXCEPT ![evalSplit] = params]
    /\ IF evalSplit = "train"
       THEN evalSplit' = "test" /\ pc' = "eval_enter"
       ELSE evalSplit' = "none" /\ pc' = "log"
    /\ UNCHANGED << config, trainLoader, testLoader, trainTransform, testTransform,
                    model, params, grads, training, watched, epoch, bidx, optSteps,
                    lr, lastEpoch, stepLRs, batchLog, trained, evalIdx, records,
                    modelPth, runFiles, artifact, registered, snapshot, netVars >>

\* wandb.log that numbers the epochs from 1
WandbLogFromOne ==
    /\ pc = "log"
    /\ records' = Append(records, [epoch |-> epoch + 1, train |-> metrics.train,
                                   test |-> metrics.test])
    /\ pc' = "sched"
    /\ UNCHANGED << config, trainLoader, testLoader, trainTransform, testTransform,
                    model, params, grads, training, inference, watched, epoch, bidx,
                    optSteps, lr, lastEpoch, stepLRs, batchLog, trained, evalSplit,
                    evalIdx, metrics, modelPth, runFiles, artifact, registered,
                    snapshot, netVars >>

\* train, lines 95-103: wandb.log of the epoch's record
WandbLog ==
    /\ pc = "log"
    /\ records' = Append(records, [epoch |-> epoch, train |-> metrics.train,
                                   test |-> metrics.test])
    /\ pc' = "sched"
    /\ UNCHANGED << config, trainLoader, testLoader, trainTransform, testTransform,
                    model, params, grads, training, inference, watched, epoch, bidx,
                    optSteps, lr, lastEpoch, stepLRs, batchLog, trained, evalSplit,
                    evalIdx, metrics, modelPth, runFiles, artifact, registered,
                    snapshot, netVars >>

\* train, line 106, and the loop's step to the next epoch: scheduler.step()
SchedulerStep ==
    /\ pc = "sched"
    /\ lastEpoch' = lastEpoch + 1
    /\ lr' = DecayedLR(lr, lastEpoch')
    /\ epoch' = epoch + 1
    /\ pc' = "epoch"
    /\ UNCHANGED << config, trainLoader, testLoader, trainTransform, testTransform,
                    model, params, grads, training, inference, watched, bidx,
                    optSteps, stepLRs, batchLog, trained, evalSplit, evalIdx,
                    metrics, records, modelPth, runFiles, artifact, registered,
                    snapshot, netVars >>

\* model_pipeline, lines 130-135: wandb.Artifact(...); no file is added to it
CreateArtifact ==
    /\ pc = "artifact"
    /\ artifact' = [name |-> "resnet", type |-> "model", files |-> {}]
    /\ pc' = "save"
    /\ UNCHANGED << config, trainLoader, testLoader, trainTransform, testTransform,
                    model, params, grads, training, inference, watched, epoch, bidx,
                    optSteps, lr, lastEpoch, stepLRs, batchLog, trained, evalSplit,
                    evalIdx, metrics, records, modelPth, runFiles, registered,
                    snapshot, netVars >>

\* model_pipeline, line 137: torch.save(model.state_dict(), "model.pth")
TorchSave ==
    /\ pc = "save"
    /\ modelPth' = params
    /\ pc' = "wandb_save"
    /\ UNCHANGED << config, trainLoader, testLoader, trainTransform, testTransform,
                    model, params, grads, training, inference, watched, epoch, bidx,
                    optSteps, lr, lastEpoch, stepLRs, batchLog, trained, evalSplit,
                    evalIdx, metrics, records, runFiles, artifact, registered,
                    snapshot, netVars >>

\* model_pipeline, line 139: wandb.save("model.pth") syncs the file to the run
WandbSave ==
    /\ pc = "wandb_save"
    /\ runFiles' = runFiles \cup {[name |-> "model.pth", blob |-> modelPth]}
    /\ pc' = "log_artifact"
    /\ UNCHANGED << config, trainLoader, testLoader, trainTransform, testTransform,
                    model, params, grads, training, inference, watched, epoch, bidx,
                    optSteps, lr, lastEpoch, stepLRs, batchLog, trained, evalSplit,
                    evalIdx, metrics, records, modelPth, artifact, registered,
                    snapshot, netVars >>

\* model_pipeline, line 141: run.log_artifact(model_artifact)
LogArtifact ==
    /\ pc = "log_artifact"
    /\ registered' = Append(registered, artifact)
    /\ pc' = "done"
    /\ UNCHANGED << config, trainLoader, testLoader, trainTransform, testTransform,
                    model, params, grads, training, inference, watched, epoch, bidx,
                    optSteps, lr, lastEpoch, stepLRs, batchLog, trained, evalSplit,
                    evalIdx, metrics, records, modelPth, runFiles, artifact,
                    snapshot, netVars >>

Next ==
    \/ Make
    \/ TrainWatch
    \/ EpochStart
    \/ TrainReturn
    \/ TrainForward
    \/ TrainLoss
    \/ ZeroGrad
    \/ Backward
    \/ OptimizerStep
    \/ EvalEnter
    \/ EvalBatch
    \/ EvalReturn
    \/ WandbLog
    \/ SchedulerStep
    \/ CreateArtifact
    \/ TorchSave
    \/ WandbSave
    \/ LogArtifact

Spec == InitPipe /\ [][Next]_vars

\* ------------------------------------------------------------------------
\* Properties
\* ------------------------------------------------------------------------

Range(seq) == {seq[i] : i \in 1..Len(seq)}

\* the positions of train between the first batch of an epoch and scheduler.step()
InEpoch == pc \in {"forward", "loss", "zero_grad", "backward", "step",
                   "eval_enter", "eval_loop", "log", "sched"}

\* the positions of model_pipeline after train has returned
AfterTrain == pc \in {"artifact", "save", "wandb_save", "log_artifact", "done"}

\* the order of the steps taken on one train batch
BatchSteps == << "forward", "loss", "zero_grad", "backward", "step" >>

\* C1: evaluate leaves the parameters as they were when it was entered, computes no
\* gradient and takes no optimizer step: while it runs and when it has returned, the
\* parameters, the gradients and the optimizer step count equal the snapshot taken on
\* entry, and its loop runs in inference mode with the model in eval mode.
C1_EvaluateReadOnly ==
    /\ (pc \in {"eval_loop", "log"} \/ (pc = "eval_enter" /\ evalSplit = "test"))
          => snapshot = << params, grads, optSteps >>
    /\ pc = "eval_loop" => (inference /\ ~training)

\* C1 witness: both evaluations of an epoch have returned after real training steps
C1_Witness ==
    /\ pc = "log"
    /\ optSteps = 2
    /\ snapshot = << 2, "computed", 2 >>
    /\ metrics = [train |-> 2, test |-> 2]

\* C2: in every epoch the train batches are processed once each in loader order, the
\* steps on a batch are forward, loss, zero_grad, backward, step in that order, and the
\* optimizer has stepped once per processed batch: epochs x batches times in a run.
C2_TrainBatchesOnceInOrder ==
    /\ InEpoch =>
          /\ trained = [i \in 1..Len(trained) |-> i]
          /\ optSteps = epoch * trainLoader + Len(trained)
          /\ batchLog = SubSeq(BatchSteps, 1, Len(batchLog))
    /\ pc \in {"forward", "loss", "zero_grad", "backward", "step"} =>
          /\ Len(trained) = bidx - 1
          /\ bidx <= trainLoader
    /\ pc = "step" => batchLog = SubSeq(BatchSteps, 1, 4)
    /\ pc \in {"eval_enter", "eval_loop", "log", "sched"} =>
          /\ Len(trained) = trainLoader
          /\ batchLog = BatchSteps
    /\ (pc = "epoch" \/ AfterTrain) => optSteps = epoch * trainLoader
    /\ AfterTrain => optSteps = config.epochs * trainLoader
    /\ pc # "failed"

\* C2 witness: a run of 3 epochs over 2 train batches has finished with 6 steps
C2_Witness ==
    /\ pc = "done"
    /\ config.epochs = 3
    /\ trainLoader = 2
    /\ optSteps = 6
    /\ trained = << 1, 2 >>

\* the learning rate the schedule is said to give epoch e
ClaimedLR(e) ==
    IF e < Milestone1 THEN BaseLR
    ELSE IF e < Milestone2 THEN BaseLR \div GammaInv
    ELSE BaseLR \div (GammaInv * GammaInv)

\* C3: the optimizer steps of epoch e (0-based) use the base rate for e < 82, a tenth of
\* it for 82 <= e < 123 and a hundredth for e >= 123, the scheduler having been stepped
\* once at the end of each earlier epoch.
C3_LearningRateSchedule ==
    /\ pc \in {"forward", "loss", "zero_grad", "backward", "step"} =>
          /\ lr = ClaimedLR(epoch)
          /\ lastEpoch = epoch
    /\ InEpoch => stepLRs \subseteq {ClaimedLR(epoch)}

\* C3 witness: the steps of epoch 123 have been taken at a hundredth of the base rate
C3_Witness ==
    /\ pc = "eval_enter"
    /\ epoch = Milestone2
    /\ stepLRs = {1}
    /\ lastEpoch = Milestone2

\* whether blk is a block of width f that subsamples as `sub` says
IsBlock(blk, f, sub) ==
    /\ blk.subsample = sub
    /\ blk.conv1.cout = f
    /\ blk.conv2.cin = f
    /\ blk.conv2.cout = f
    /\ blk.conv1.cin = (IF sub THEN f \div 2 ELSE f)
    /\ blk.conv1.s = (IF sub THEN 2 ELSE 1)

\* C4: for n >= 1, ResNet(n) holds 3n residual blocks, a stem convolution and a linear
\* head: n plain blocks at 16 channels, a subsampling block at 32 followed by n-1 plain
\* blocks at 32, a subsampling block at 64 followed by n-1 plain blocks at 64.
C4_NetworkLayout ==
    (stage \notin {"idle", "off", "block"} /\ netN >= 1) =>
       /\ Len(net.stack1) + Len(net.stack2) + Len(net.stack3) = 3 * netN
       /\ Len(net.stack1) = netN
       /\ \A i \in 1..netN : IsBlock(net.stack1[i], 16, FALSE)
       /\ Len(net.stack2) = netN
       /\ IsBlock(net.stack2[1], 32, TRUE)
       /\ \A i \in 2..netN : IsBlock(net.stack2[i], 32, FALSE)
       /\ Len(net.stack3) = netN
       /\ IsBlock(net.stack3[1], 64, TRUE)
       /\ \A i \in 2..netN : IsBlock(net.stack3[i], 64, FALSE)
       /\ net.conv1.cin = 3 /\ net.conv1.cout = 16
       /\ net.fully_connected = [in |-> 64, out |-> 10]

\* C4 witness: ResNet(3) has been constructed, with 9 blocks
C4_Witness ==
    /\ stage = "built"
    /\ netN = 3
    /\ Len(net.stack1) = 3 /\ Len(net.stack2) = 3 /\ Len(net.stack3) = 3

\* C5: a depth factor n < 1 is rejected: the pipeline never gets past the
\* configuration, so no model is built and no batch or optimizer step follows.
C5_NonPositiveDepthRejected ==
    config.n < 1 => (pc = "init" /\ optSteps = 0)

\* C6: for n >= 1 and B >= 1, forward on an input of shape (B,3,32,32) raises no shape
\* error, every residual addition has operands of identical shape, and the result has
\* shape (B,10).
C6_ForwardShape ==
    (stage \notin {"idle", "off", "block", "built"} /\ netN >= 1
        /\ inShape[3] = 32 /\ inShape[4] = 32) =>
       /\ stage # "error"
       /\ lastAdd.out = lastAdd.x
       /\ stage = "done" => x = << inShape[1], 10 >>

\* C6 witness: ResNet(1).forward on (4,3,32,32) has returned (4,10)
C6_Witness ==
    /\ stage = "done"
    /\ netN = 1
    /\ inShape = << 4, 3, 32, 32 >>
    /\ x = << 4, 10 >>
    /\ lastAdd = [out |-> << 4, 64, 8, 8 >>, x |-> << 4, 64, 8, 8 >>]

\* the case of C7: a subsampling block of width w run on an input of w/2 channels
DownsampleCase ==
    /\ stage = "block"
    /\ tBlock.subsample
    /\ tIn[2] = tBlock.conv2.cout \div 2

\* C7 as stated: a subsampling block of width w maps (B, w/2, H, W) to
\* (B, w, floor(H/2), floor(W/2)), for odd as well as even H and W.
C7_DownsampleFloor ==
    DownsampleCase =>
       tOut = << tIn[1], tBlock.conv2.cout, tIn[3] \div 2, tIn[4] \div 2 >>

\* C7 as amended: a subsampling block of width w maps (B, w/2, H, W) to
\* (B, w, ceil(H/2), ceil(W/2)): exactly half for even H and W, half rounded up
\* for odd ones.
C7_DownsampleCeil ==
    DownsampleCase =>
       tOut = << tIn[1], tBlock.conv2.cout, (tIn[3] + 1) \div 2, (tIn[4] + 1) \div 2 >>

\* C7 witness: a subsampling block of width 32 has mapped (1,16,5,6) to (1,32,3,3)
C7_Witness ==
    /\ DownsampleCase
    /\ tIn = << 1, 16, 5, 6 >>
    /\ tOut = << 1, 32, 3, 3 >>

\* C8: in a run of a valid configuration, the artifact registered with
\* run.log_artifact holds the checkpoint: the serialized parameters as they are after
\* the last optimizer step.
C8_ArtifactHoldsCheckpoint ==
    (config.n >= 1 /\ config.epochs >= 1) =>
       \A i \in 1..Len(registered) :
          [name |-> "model.pth", blob |-> params] \in registered[i].files

\* C9: each epoch emits one record carrying its index, after all its train batches and
\* both evaluations and before the scheduler's one step; the indices are 0,1,2,... in
\* order and a run ends with exactly config.epochs records.
C9_OneRecordPerEpoch ==
    /\ \A i \in 1..Len(records) : records[i].epoch = i - 1
    /\ pc \in {"epoch", "forward", "loss", "zero_grad", "backward", "step",
               "eval_enter", "eval_loop", "log"} =>
          /\ Len(records) = epoch
          /\ lastEpoch = epoch
    /\ pc = "log" =>
          /\ Len(trained) = trainLoader
          /\ metrics = [train |-> params, test |-> params]
    /\ pc = "sched" =>
          /\ Len(records) = epoch + 1
          /\ lastEpoch = epoch
          /\ records[epoch + 1] = [epoch |-> epoch, train |-> params, test |-> params]
    /\ AfterTrain =>
          /\ Len(records) = config.epochs
          /\ lastEpoch = config.epochs
          /\ epoch = config.epochs

\* C9 witness: a run of 3 epochs has finished with the records of epochs 0, 1, 2
C9_Witness ==
    /\ pc = "done"
    /\ config.epochs = 3
    /\ Len(records) = 3
    /\ records[1].epoch = 0 /\ records[2].epoch = 1 /\ records[3].epoch = 2

\* C10: for a valid configuration, the transforms make sets up normalize both splits
\* alike and crop at random on the train split only.
C10_BothSplitsNormalized ==
    (config.n >= 1 /\ pc # "init") =>
       /\ "Normalize" \in Range(trainTransform)
       /\ "Normalize" \in Range(testTransform)
       /\ "RandomCrop" \in Range(trainTransform)
       /\ "RandomCrop" \notin Range(testTransform)

====
